---- MODULE Spec2Model ----
(***************************************************************************)
(* Model of server/v2/api/grpcgateway/uri.go: the URI matcher (matchURI,   *)
(* patternToRegex) and the message builders (createMessageFromJSON,        *)
(* createMessage).                                                         *)
(*                                                                         *)
(* A Go string is a sequence of one-character strings.  After the first    *)
(* substitution pass of patternToRegex a capture group the code inserted   *)
(* is kept as one element, "(.+)" or "([^/]+)"; no character of a group    *)
(* is a brace or a backslash, so the second pass reads it as the code      *)
(* reads its characters.                                                   *)
(***************************************************************************)
EXTENDS Integers, Sequences, FiniteSets, TLC

VARIABLES
    table,      \* getPatternToQueryInputName: template -> query input name
    uri,        \* the request path handed to matchURI
    order,      \* the order in which range visited the table in this call
    result,     \* the *URIMatch returned by matchURI (nil: result.isNil)
    winner,     \* history: the key of the table that produced result
    body,       \* r.Body: its size in bytes and the document it holds
    bodyCloses, \* how many times r.Body.Close() has run
    msg,        \* the gogoproto.Message a builder returned (nil: msg.isNil)
    err,        \* the error a builder returned ("": nil)
    pc          \* position of the request: "idle", "matched", "notfound",
                \* "builtJSON", "builtParams"

vars == <<table, uri, order, result, winner, body, bodyCloses, msg, err, pc>>

(***************************************************************************)
(* Bounds of the model.                                                    *)
(***************************************************************************)
MaxPathSegs == 3      \* segments in a request path
MaxTemplateSegs == 3  \* segments in the template of a one-entry table
MaxPairSegs == 1      \* segments in each template of a two-entry table

BS == "\\"

\* A request path is segments joined by the separator, with or without a
\* trailing separator.
PathSegments == { <<"a">>, <<"a", "b">> }

SingleToken == <<"{", "x", "}">>
MultiToken == <<"{", "y", "=", "*", "*", "}">>
SingleName0 == <<"x">>
MultiName0 == <<"y">>

\* A template is segments joined by the separator: a segment is a literal,
\* a single-segment wildcard {x} or a multi-segment wildcard {y=**}.
TemplateSegments == { <<"a">>, SingleToken, MultiToken }

Trailers == { <<>>, <<"/">> }

TypeNames == {"T1", "T2"}

SeqsOf(S, n) == UNION { [1..k -> S] : k \in 1..n }

RECURSIVE Join(_)
Join(ss) ==
    IF Len(ss) = 1 THEN ss[1] ELSE ss[1] \o <<"/">> \o Join(Tail(ss))

PlainTemplates(n) == { Join(ss) : ss \in SeqsOf(TemplateSegments, n) }

Templates(n) == { k \o t : k \in PlainTemplates(n), t \in Trailers }

Paths ==
    { Join(ss) \o t : ss \in SeqsOf(PathSegments, MaxPathSegs), t \in Trailers }

\* The tables: one template of any shape, or two templates without a
\* trailing separator.
Tables ==
    UNION { [ {k} -> TypeNames] : k \in Templates(MaxTemplateSegs) }
    \cup
    UNION { [ {k1, k2} -> TypeNames] :
                k1 \in PlainTemplates(MaxPairSegs),
                k2 \in PlainTemplates(MaxPairSegs) }

\* Every order in which range can visit the keys of a map.
Orders(keys) ==
    { o \in [1..Cardinality(keys) -> keys] :
        \A i, j \in 1..Cardinality(keys) : i # j => o[i] # o[j] }

(***************************************************************************)
(* strings.TrimRight(s, "/")                                               *)
(***************************************************************************)
\* A trim that removes one trailing separator only.
TrimRightOnce(s, c) ==
    IF s = <<>> \/ s[Len(s)] # c THEN s ELSE SubSeq(s, 1, Len(s) - 1)

RECURSIVE TrimRight(_, _)
TrimRight(s, c) ==
    IF s = <<>> \/ s[Len(s)] # c THEN s
    ELSE TrimRight(SubSeq(s, 1, Len(s) - 1), c)

(***************************************************************************)
(* regexp.QuoteMeta                                                        *)
(***************************************************************************)
SpecialChars ==
    {BS, ".", "+", "*", "?", "(", ")", "|", "[", "]", "{", "}", "^", "$"}

RECURSIVE QuoteMeta(_)
QuoteMeta(s) ==
    IF s = <<>> THEN <<>>
    ELSE (IF Head(s) \in SpecialChars THEN <<BS, Head(s)>> ELSE <<Head(s)>>)
         \o QuoteMeta(Tail(s))

(***************************************************************************)
(* First pass of patternToRegex: r1 = \\\{([^}]+?)=\\\*\\\*\\}             *)
(***************************************************************************)
MultiSuffix == <<"=", BS, "*", BS, "*", BS, "}">>

\* The positions j at which the text after the lazy group of r1 can start,
\* for a match of r1 that starts at i.
MultiStops(s, i) ==
    { j \in (i + 3)..(Len(s) - 6) :
        /\ \A k \in (i + 2)..(j - 1) : s[k] # "}"
        /\ SubSeq(s, j, j + 6) = MultiSuffix }

MultiMatches(s, i) ==
    /\ i + 1 <= Len(s)
    /\ s[i] = BS
    /\ s[i + 1] = "{"
    /\ MultiStops(s, i) # {}

Least(S) == CHOOSE n \in S : \A m \in S : n <= m

\* Last position of the match of r1 at i: the group is lazy.
MultiMatchEnd(s, i) == Least(MultiStops(s, i)) + 6

\* The name the callback extracts with \\\{(.+?)= from the matched text.
MultiName(s, i) ==
    LET e == MultiMatchEnd(s, i)
        k == Least({ j \in (i + 3)..e : s[j] = "=" })
    IN  SubSeq(s, i + 2, k - 1)

\* A first pass that emits the single-segment group for {name=**}.
RECURSIVE ReplaceMultiAsSingle(_, _)
ReplaceMultiAsSingle(s, i) ==
    IF i > Len(s) THEN [out |-> <<>>, names |-> <<>>]
    ELSE IF MultiMatches(s, i)
    THEN LET rest == ReplaceMultiAsSingle(s, MultiMatchEnd(s, i) + 1)
         IN  [out |-> <<"([^/]+)">> \o rest.out,
              names |-> <<MultiName(s, i)>> \o rest.names]
    ELSE LET rest == ReplaceMultiAsSingle(s, i + 1)
         IN  [out |-> <<s[i]>> \o rest.out, names |-> rest.names]

RECURSIVE ReplaceMulti(_, _)
ReplaceMulti(s, i) ==
    IF i > Len(s) THEN [out |-> <<>>, names |-> <<>>]
    ELSE IF MultiMatches(s, i)
    THEN LET rest == ReplaceMulti(s, MultiMatchEnd(s, i) + 1)
         IN  [out |-> <<"(.+)">> \o rest.out,
              names |-> <<MultiName(s, i)>> \o rest.names]
    ELSE LET rest == ReplaceMulti(s, i + 1)
         IN  [out |-> <<s[i]>> \o rest.out, names |-> rest.names]

(***************************************************************************)
(* Second pass of patternToRegex: r2 = \\\{([^}]+)\\}                      *)
(***************************************************************************)
\* The positions of a closing brace at or after i + 2.
SingleStops(s, i) == { e \in (i + 2)..Len(s) : s[e] = "}" }

\* [^}]+ is greedy and cannot cross a brace: the match ends at the first
\* brace, which must follow a backslash and leave the group non-empty.
SingleMatches(s, i) ==
    /\ i + 1 <= Len(s)
    /\ s[i] = BS
    /\ s[i + 1] = "{"
    /\ SingleStops(s, i) # {}
    /\ LET e == Least(SingleStops(s, i))
       IN  /\ s[e - 1] = BS
           /\ e - 2 >= i + 2

SingleMatchEnd(s, i) == Least(SingleStops(s, i))

\* The name the callback extracts with \\\{(.*?)\\} from the matched text.
SingleName(s, i) == SubSeq(s, i + 2, SingleMatchEnd(s, i) - 2)

RECURSIVE ReplaceSingle(_, _)
ReplaceSingle(s, i) ==
    IF i > Len(s) THEN [out |-> <<>>, names |-> <<>>]
    ELSE IF SingleMatches(s, i)
    THEN LET rest == ReplaceSingle(s, SingleMatchEnd(s, i) + 1)
         IN  [out |-> <<"([^/]+)">> \o rest.out,
              names |-> <<SingleName(s, i)>> \o rest.names]
    ELSE LET rest == ReplaceSingle(s, i + 1)
         IN  [out |-> <<s[i]>> \o rest.out, names |-> rest.names]

(***************************************************************************)
(* patternToRegex: the text of the pattern between ^ and $, and the        *)
(* wildcard names in the order the two passes appended them.               *)
(***************************************************************************)
patternToRegex(pattern) ==
    LET escaped == QuoteMeta(pattern)
        p1 == ReplaceMulti(escaped, 1)
        p2 == ReplaceSingle(p1.out, 1)
    IN  [regex |-> p2.out, wildcardNames |-> p1.names \o p2.names]

(***************************************************************************)
(* regexp.MustCompile and FindStringSubmatch on ^regex$                    *)
(***************************************************************************)
Lit(c) == [kind |-> "lit", ch |-> c]
MultiGroup == [kind |-> "multi", ch |-> ""]
SingleGroup == [kind |-> "single", ch |-> ""]

\* The compiled program: literals and capture groups, left to right.
RECURSIVE Compile(_)
Compile(re) ==
    IF re = <<>> THEN <<>>
    ELSE IF Head(re) = "(.+)" THEN <<MultiGroup>> \o Compile(Tail(re))
    ELSE IF Head(re) = "([^/]+)" THEN <<SingleGroup>> \o Compile(Tail(re))
    ELSE IF Head(re) = BS /\ Len(re) >= 2
    THEN <<Lit(re[2])>> \o Compile(Tail(Tail(re)))
    ELSE <<Lit(Head(re))>> \o Compile(Tail(re))

NumGroups(prog) == Cardinality({ i \in 1..Len(prog) : prog[i].kind # "lit" })

Drop(s, n) == SubSeq(s, n + 1, Len(s))

\* Whether prog matches the whole of s.
RECURSIVE Accepts(_, _)
Accepts(prog, s) ==
    IF prog = <<>> THEN s = <<>>
    ELSE IF Head(prog).kind = "lit"
    THEN s # <<>> /\ Head(s) = Head(prog).ch /\ Accepts(Tail(prog), Tail(s))
    ELSE \E n \in 1..Len(s) :
            /\ Head(prog).kind = "single" => \A k \in 1..n : s[k] # "/"
            /\ Accepts(Tail(prog), Drop(s, n))

\* The capture groups of the match the engine reports: every group is
\* greedy, an earlier group is preferred over a later one.
RECURSIVE Captures(_, _)
Captures(prog, s) ==
    IF prog = <<>> THEN <<>>
    ELSE IF Head(prog).kind = "lit" THEN Captures(Tail(prog), Tail(s))
    ELSE LET fits == { n \in 1..Len(s) :
                         /\ Head(prog).kind = "single"
                                => \A k \in 1..n : s[k] # "/"
                         /\ Accepts(Tail(prog), Drop(s, n)) }
             n == CHOOSE m \in fits : \A l \in fits : l <= m
         IN  <<SubSeq(s, 1, n)>> \o Captures(Tail(prog), Drop(s, n))

\* FindStringSubmatch: matched is matches != nil, groups is matches[1:].
FindStringSubmatch(re, s) ==
    LET prog == Compile(re)
    IN  IF Accepts(prog, s)
        THEN [matched |-> TRUE, groups |-> Captures(prog, s)]
        ELSE [matched |-> FALSE, groups |-> <<>>]

(***************************************************************************)
(* URIMatch and matchURI                                                   *)
(***************************************************************************)
NoParams == [n \in {} |-> <<>>]

NilMatch == [isNil |-> TRUE, QueryInputName |-> "", Params |-> NoParams]

URIMatch(inputName, params) ==
    [isNil |-> FALSE, QueryInputName |-> inputName, Params |-> params]

HasParams(m) == DOMAIN m.Params # {}

Range(f) == { f[i] : i \in DOMAIN f }

\* params[name] = matches[i+1] for i, name in wildcardNames: a later
\* entry of the same name overwrites an earlier one.
ZipParams(wildcardNames, groups) ==
    [ n \in Range(wildcardNames) |->
        groups[ CHOOSE i \in 1..Len(wildcardNames) :
                    /\ wildcardNames[i] = n
                    /\ \A j \in 1..Len(wildcardNames) :
                          wildcardNames[j] = n => j <= i ] ]

\* A loop body that takes any match, with or without capture groups.
TryPatternAnyMatch(u, getPattern) ==
    LET c == patternToRegex(TrimRight(getPattern, "/"))
        m == FindStringSubmatch(c.regex, u)
    IN  [hit |-> m.matched,
         inRange |-> Len(c.wildcardNames) <= Len(m.groups),
         names |-> c.wildcardNames,
         groups |-> m.groups]

\* The body of the loop for one key of the table.
TryPattern(u, getPattern) ==
    LET c == patternToRegex(TrimRight(getPattern, "/"))
        m == FindStringSubmatch(c.regex, u)
    IN  [hit |-> m.matched /\ Len(m.groups) + 1 > 1,
         inRange |-> Len(c.wildcardNames) <= Len(m.groups),
         names |-> c.wildcardNames,
         groups |-> m.groups]

\* A loop that gives up after the first key it visits.
SearchFirstOnly(u, t, o, i) ==
    IF i > Len(o) \/ ~TryPattern(u, o[i]).hit
    THEN [match |-> NilMatch, key |-> <<>>, wild |-> FALSE, panic |-> FALSE]
    ELSE [match |-> URIMatch(t[o[i]],
                             ZipParams(TryPattern(u, o[i]).names,
                                       TryPattern(u, o[i]).groups)),
          key |-> o[i], wild |-> TRUE, panic |-> FALSE]

\* The loop over the table in the order o, from its i-th key on.
RECURSIVE SearchFrom(_, _, _, _)
SearchFrom(u, t, o, i) ==
    IF i > Len(o) THEN [match |-> NilMatch, key |-> <<>>, wild |-> FALSE,
                        panic |-> FALSE]
    ELSE LET r == TryPattern(u, o[i])
         IN  IF ~r.hit THEN SearchFrom(u, t, o, i + 1)
             ELSE IF ~r.inRange
             THEN [match |-> NilMatch, key |-> o[i], wild |-> TRUE,
                   panic |-> TRUE]
             ELSE [match |-> URIMatch(t[o[i]], ZipParams(r.names, r.groups)),
                   key |-> o[i], wild |-> TRUE, panic |-> FALSE]

\* A matcher without the map lookup of the fast path.
matchURINoLookup(u0, t, o) == SearchFrom(TrimRight(u0, "/"), t, o, 1)

\* matchURI(uri, getPatternToQueryInputName), with range visiting the
\* table in the order o.
matchURI(u0, t, o) ==
    LET u == TrimRight(u0, "/")
    IN  IF u \in DOMAIN t
        THEN [match |-> URIMatch(t[u], NoParams), key |-> u, wild |-> FALSE,
              panic |-> FALSE]
        ELSE SearchFrom(u, t, o, 1)

(***************************************************************************)
(* The type registry (gogoproto.MessageType) and the reflected fields of   *)
(* the registered types: the Go name of a field, the name= entry of its    *)
(* protobuf tag (<<>>: the field has none) and its kind.                   *)
(***************************************************************************)
MaxBodySize == 1048576

Field(name, tag, kind) == [Name |-> name, tag |-> tag, kind |-> kind]

NilType == [registered |-> FALSE, isMessage |-> FALSE, fields |-> <<>>]

\* T1 and T2 are registered, any other name is not.  RegisterType accepts
\* Messages only, so every registered type can be instantiated as one.
MessageType(name) ==
    CASE name = "T1" ->
            [registered |-> TRUE, isMessage |-> TRUE,
             fields |-> << Field(<<"X">>, <<"x">>, "string"),
                           Field(<<"Y">>, <<"y">>, "int") >>]
      [] name = "T2" ->
            [registered |-> TRUE, isMessage |-> TRUE,
             fields |-> << Field(<<"X">>, <<"x">>, "int"),
                           Field(<<"X", "X", "X">>, <<>>, "string") >>]
      [] OTHER -> NilType

NilMsg == [isNil |-> TRUE, fields |-> [n \in {} |-> <<>>]]

ZeroValue(kind) == IF kind = "int" THEN 0 ELSE <<>>

FieldNames(t) == { t.fields[i].Name : i \in 1..Len(t.fields) }

FieldOf(t, name) ==
    t.fields[CHOOSE i \in 1..Len(t.fields) : t.fields[i].Name = name]

\* reflect.New(requestType.Elem()): every field holds its zero value.
NewMessage(t) ==
    [isNil |-> FALSE,
     fields |-> [n \in FieldNames(t) |-> ZeroValue(FieldOf(t, n).kind)]]

(***************************************************************************)
(* mapstructure with WeaklyTypedInput: a string is parsed into an int      *)
(* field (the empty string as 0); an input that does not parse is an       *)
(* error.                                                                  *)
(***************************************************************************)
Digits == {"0", "1", "2", "3", "4", "5", "6", "7", "8", "9"}

DigitValue(c) ==
    CASE c = "0" -> 0 [] c = "1" -> 1 [] c = "2" -> 2 [] c = "3" -> 3
      [] c = "4" -> 4 [] c = "5" -> 5 [] c = "6" -> 6 [] c = "7" -> 7
      [] c = "8" -> 8 [] c = "9" -> 9

RECURSIVE ParseInt(_)
ParseInt(v) ==
    IF v = <<>> THEN 0
    ELSE 10 * ParseInt(SubSeq(v, 1, Len(v) - 1)) + DigitValue(v[Len(v)])

Coercible(kind, v) == kind = "int" => \A i \in 1..Len(v) : v[i] \in Digits

Coerce(kind, v) == IF kind = "int" THEN ParseInt(v) ELSE v

\* decoder.Decode(fieldMap) into m, a message of type t.
Decode(t, m, fieldMap) ==
    IF \E n \in DOMAIN fieldMap : ~Coercible(FieldOf(t, n).kind, fieldMap[n])
    THEN [failed |-> TRUE, msg |-> NilMsg]
    ELSE [failed |-> FALSE,
          msg |-> [isNil |-> FALSE,
                   fields |-> [n \in FieldNames(t) |->
                                 IF n \in DOMAIN fieldMap
                                 THEN Coerce(FieldOf(t, n).kind, fieldMap[n])
                                 ELSE m.fields[n]]]]

(***************************************************************************)
(* createMessage                                                           *)
(***************************************************************************)
\* A comparison of the key with the Go name of the field.
TagMatchesGoName(field, key) == field.Name = key

\* The inner loop: the first field whose tag names key, 0 if there is none.
TagMatches(field, key) == field.tag # <<>> /\ field.tag = key

FieldIndex(t, key) ==
    IF \E i \in 1..Len(t.fields) : TagMatches(t.fields[i], key)
    THEN Least({ i \in 1..Len(t.fields) : TagMatches(t.fields[i], key) })
    ELSE 0

\* fieldMap: Go field name -> parameter value, for the keys that name a field.
FieldMap(t, params) ==
    LET used == { k \in DOMAIN params : FieldIndex(t, k) # 0 }
        names == { t.fields[FieldIndex(t, k)].Name : k \in used }
    IN  [ n \in names |->
            params[CHOOSE k \in used : t.fields[FieldIndex(t, k)].Name = n] ]

createMessage(match) ==
    LET requestType == MessageType(match.QueryInputName)
    IN  IF ~requestType.registered
        THEN [msg |-> NilMsg, err |-> "unknown request type"]
        ELSE IF ~requestType.isMessage
        THEN [msg |-> NilMsg, err |-> "failed to create message instance"]
        ELSE IF ~HasParams(match)
        THEN [msg |-> NewMessage(requestType), err |-> ""]
        ELSE LET d == Decode(requestType, NewMessage(requestType),
                             FieldMap(requestType, match.Params))
             IN  IF d.failed
                 THEN [msg |-> NilMsg, err |-> "failed to decode params"]
                 ELSE [msg |-> d.msg, err |-> ""]

(***************************************************************************)
(* createMessageFromJSON                                                   *)
(***************************************************************************)
Min(a, b) == IF a <= b THEN a ELSE b

\* jsonpb.Unmarshal(io.LimitReader(r.Body, MaxBodySize), msg): the outcomes
\* it can have.  A body within the limit decodes iff it is a document of
\* the type; of a longer body only the first MaxBodySize bytes are read,
\* which may or may not hold a whole document.
UnmarshalOutcomes(b) ==
    IF Min(b.size, MaxBodySize) = b.size THEN {b.doc = "{}"}
    ELSE IF b.doc = "{}" THEN {TRUE, FALSE} ELSE {FALSE}

\* The result of createMessageFromJSON and the number of times it closed
\* the body, when Unmarshal decodes (ok) or not.
createMessageFromJSON(match, ok) ==
    LET requestType == MessageType(match.QueryInputName)
    IN  IF ~requestType.registered
        THEN [msg |-> NilMsg, err |-> "unknown request type", closes |-> 0]
        ELSE IF ~requestType.isMessage
        THEN [msg |-> NilMsg, err |-> "failed to create message instance",
              closes |-> 0]
        ELSE IF ~ok
        THEN [msg |-> NilMsg, err |-> "error parsing body", closes |-> 1]
        ELSE [msg |-> NewMessage(requestType), err |-> "", closes |-> 1]

(***************************************************************************)
(* The matcher as a state machine: one request against one table.          *)
(***************************************************************************)
NoWinner == [key |-> <<>>, wild |-> FALSE, panic |-> FALSE]

NoBody == [size |-> 0, doc |-> ""]

Init ==
    /\ table \in Tables
    /\ uri \in Paths
    /\ order = <<>>
    /\ result = NilMatch
    /\ winner = NoWinner
    /\ body = NoBody
    /\ bodyCloses = 0
    /\ msg = NilMsg
    /\ err = ""
    /\ pc = "idle"

MatchURI ==
    /\ pc = "idle"
    /\ \E o \in Orders(DOMAIN table) :
          \E r \in {matchURI(uri, table, o)} :
              /\ order' = o
              /\ result' = r.match
              /\ winner' = [key |-> r.key, wild |-> r.wild, panic |-> r.panic]
              /\ pc' = IF r.match.isNil THEN "notfound" ELSE "matched"
    /\ UNCHANGED <<table, uri, body, bodyCloses, msg, err>>

Next == MatchURI

Spec == Init /\ [][Next]_vars

(***************************************************************************)
(* The builders as a state machine: one match handed to one builder.       *)
(***************************************************************************)
MaxParams == 2   \* parameters in a match handed to a builder

BuildTypeNames == {"T1", "T2", "T3"}

ParamKeys == { <<"x">>, <<"y">>, <<"z">> }

ParamValues == { <<>>, <<"7">>, <<"4", "2">>, <<"a">> }

BuildParams ==
    UNION { [ks -> ParamValues] :
              ks \in { K \in SUBSET ParamKeys : Cardinality(K) <= MaxParams } }

BodySizes == {2, MaxBodySize, MaxBodySize + 1}

Bodies == [size : BodySizes, doc : {"{}", "garbage"}]

InitBuild ==
    /\ table = [k \in {} |-> ""]
    /\ uri = <<>>
    /\ order = <<>>
    /\ \E n \in BuildTypeNames, p \in BuildParams : result = URIMatch(n, p)
    /\ winner = NoWinner
    /\ body \in Bodies
    /\ bodyCloses = 0
    /\ msg = NilMsg
    /\ err = ""
    /\ pc = "matched"

CreateMessage ==
    /\ pc = "matched"
    /\ \E r \in {createMessage(result)} :
          /\ msg' = r.msg
          /\ err' = r.err
    /\ pc' = "builtParams"
    /\ UNCHANGED <<table, uri, order, result, winner, body, bodyCloses>>

CreateMessageFromJSON ==
    /\ pc = "matched"
    /\ \E ok \in UnmarshalOutcomes(body) :
          \E r \in {createMessageFromJSON(result, ok)} :
              /\ msg' = r.msg
              /\ err' = r.err
              /\ bodyCloses' = bodyCloses + r.closes
    /\ pc' = "builtJSON"
    /\ UNCHANGED <<table, uri, order, result, winner, body>>

NextBuild == CreateMessage \/ CreateMessageFromJSON

SpecBuild == InitBuild /\ [][NextBuild]_vars

(***************************************************************************)
(* Properties of the matcher, checked under Spec.                          *)
(***************************************************************************)
Trimmed == TrimRight(uri, "/")

\* The keys of the table whose loop body accepts the trimmed path.
Hits == { k \in DOMAIN table : TryPattern(Trimmed, k).hit }

\* C1: whenever the trimmed request path is verbatim a key of the table,
\* matchURI returns that key's type name with no parameters, and the result
\* does not come from the wildcard search, even if a wildcard template of
\* the table matches the path too.
C1_ExactMatchPriority ==
    (pc # "idle" /\ Trimmed \in DOMAIN table) =>
        /\ result = URIMatch(table[Trimmed], NoParams)
        /\ ~winner.wild
        /\ winner.key = Trimmed

\* An exact key wins although a wildcard template of another type matches.
C1_Witness ==
    /\ pc = "matched"
    /\ Trimmed \in DOMAIN table
    /\ \E k \in Hits : table[k] # table[Trimmed]
    /\ result.QueryInputName = table[Trimmed]

\* The wildcard names of a template in the order of their positions: the
\* groups of the pattern, left to right, each with the name of the wildcard
\* it replaced (s is the text after the first pass, multiNames its names).
RECURSIVE NamesByPosition(_, _, _)
NamesByPosition(s, i, multiNames) ==
    IF i > Len(s) THEN <<>>
    ELSE IF s[i] = "(.+)"
    THEN <<Head(multiNames)>> \o NamesByPosition(s, i + 1, Tail(multiNames))
    ELSE IF SingleMatches(s, i)
    THEN <<SingleName(s, i)>>
         \o NamesByPosition(s, SingleMatchEnd(s, i) + 1, multiNames)
    ELSE NamesByPosition(s, i + 1, multiNames)

PositionalNames(pattern) ==
    LET p1 == ReplaceMulti(QuoteMeta(pattern), 1)
    IN  NamesByPosition(p1.out, 1, p1.names)

\* C2: in every wildcard match every wildcard name is bound to the text
\* captured at that wildcard's own position in the template: the i-th
\* capture group goes to the name of the i-th wildcard, left to right (a
\* name the template uses once).
C2_NamesFollowGroups ==
    (pc = "matched" /\ winner.wild) =>
        LET t == TrimRight(winner.key, "/")
            pos == PositionalNames(t)
            g == FindStringSubmatch(patternToRegex(t).regex, Trimmed).groups
        IN  \A i \in 1..Len(pos) :
                (\A j \in 1..Len(pos) : pos[j] = pos[i] => j = i)
                    => result.Params[pos[i]] = g[i]

\* Whether the trimmed template k matches the trimmed path as a whole.
TemplateMatches(k) ==
    FindStringSubmatch(patternToRegex(TrimRight(k, "/")).regex, Trimmed).matched

\* C3: whenever some template of the table, trimmed of its trailing
\* separator, matches the trimmed request path, matchURI returns a match.
C3_TrimmedTemplateMatches ==
    (pc # "idle" /\ \E k \in DOMAIN table : TemplateMatches(k)) =>
        ~result.isNil

C5_SingleSegmentValue ==
    (pc = "matched" /\ winner.wild /\ SingleName0 \in DOMAIN result.Params) =>
        \A i \in 1..Len(result.Params[SingleName0]) :
            result.Params[SingleName0][i] # "/"

\* The position of the first opening brace of k, 0 if it has none.
FirstBrace(k) ==
    IF \E i \in 1..Len(k) : k[i] = "{"
    THEN Least({ i \in 1..Len(k) : k[i] = "{" })
    ELSE 0

\* k is literal text, the multi-segment wildcard, literal text.
IsOneMulti(k) ==
    LET i == FirstBrace(k)
    IN  /\ i # 0
        /\ i + 5 <= Len(k)
        /\ SubSeq(k, i, i + 5) = MultiToken
        /\ \A j \in (i + 6)..Len(k) : k[j] # "{"

\* C6: for a template whose only wildcard is {y=**}, between a literal
\* prefix and a literal suffix: every trimmed path made of the prefix, a
\* non-empty remainder and the suffix is matched, and when this template
\* produces the result the path has that shape and y is bound to the whole
\* remainder, separators included.
C6_MultiSegmentWildcard ==
    pc # "idle" =>
        \A k0 \in DOMAIN table :
            LET k == TrimRight(k0, "/")
                i == FirstBrace(k)
                pre == SubSeq(k, 1, i - 1)
                post == SubSeq(k, i + 6, Len(k))
                u == Trimmed
                fits == /\ Len(u) > Len(pre) + Len(post)
                        /\ SubSeq(u, 1, Len(pre)) = pre
                        /\ SubSeq(u, Len(u) - Len(post) + 1, Len(u)) = post
                rest == SubSeq(u, Len(pre) + 1, Len(u) - Len(post))
            IN  IsOneMulti(k) =>
                    /\ fits => ~result.isNil
                    /\ (winner.wild /\ winner.key = k0) =>
                          /\ fits
                          /\ result.Params = (MultiName0 :> rest)

\* The template a/{y=**} binds y to a remainder of several segments.
C6_Witness ==
    /\ pc = "matched"
    /\ winner.wild
    /\ winner.key = <<"a", "/">> \o MultiToken
    /\ \E i \in 1..Len(result.Params[MultiName0]) :
          result.Params[MultiName0][i] = "/"

\* C8: for a fixed path and table every order of iteration gives the
\* result of the call made.
C8_OrderIndependent ==
    pc # "idle" =>
        \A o \in Orders(DOMAIN table) : matchURI(uri, table, o).match = result

\* C8 as amended: every order of iteration gives the same result when the
\* trimmed path is a key of the table or at most one template is accepted
\* by the wildcard search; when the path is no key and templates are
\* accepted, the result is that of the accepted template visited first.
C8_Amended ==
    pc # "idle" =>
        LET hits == Hits
            u == Trimmed
        IN  /\ (u \in DOMAIN table \/ Cardinality(hits) <= 1) =>
                  \A o \in Orders(DOMAIN table) :
                      matchURI(uri, table, o).match = result
            /\ (u \notin DOMAIN table /\ hits # {}) =>
                  /\ winner.wild
                  /\ winner.key = order[Least({ i \in 1..Len(order) :
                                                  order[i] \in hits })]
                  /\ result.QueryInputName = table[winner.key]

\* A table of two templates of which the second one visited is the only
\* one accepted.
C8_Witness ==
    /\ pc = "matched"
    /\ Len(order) = 2
    /\ Hits = {order[2]}
    /\ winner.key = order[2]

\* C10: every template of the table compiles to as many wildcard names as
\* capture groups, so the loop never reads past the groups; a result carries
\* the type name the table gives the winning key; a result of the wildcard
\* search has at least one parameter, its keys are the wildcard names of the
\* winning template, and that template has a wildcard.
C10_NamesAndGroups ==
    pc # "idle" =>
        /\ \A k \in DOMAIN table :
              LET c == patternToRegex(TrimRight(k, "/"))
              IN  Len(c.wildcardNames) = NumGroups(Compile(c.regex))
        /\ ~winner.panic
        /\ ~result.isNil =>
              /\ winner.key \in DOMAIN table
              /\ result.QueryInputName = table[winner.key]
        /\ winner.wild =>
              LET c == patternToRegex(TrimRight(winner.key, "/"))
              IN  /\ ~result.isNil
                  /\ HasParams(result)
                  /\ DOMAIN result.Params = Range(c.wildcardNames)
                  /\ Len(c.wildcardNames) >= 1

\* A wildcard match of a template with two wildcards.
C10_Witness ==
    /\ pc = "matched"
    /\ winner.wild
    /\ Cardinality(DOMAIN result.Params) = 2

(***************************************************************************)
(* Properties of the builders, checked under SpecBuild.                    *)
(***************************************************************************)
RequestType == MessageType(result.QueryInputName)

Resolvable == RequestType.registered /\ RequestType.isMessage

\* C7: every build attempt of createMessageFromJSON, whatever its exit,
\* has closed the request body exactly once.
C7_BodyClosedOnce == pc = "builtJSON" => bodyCloses = 1

\* The fields of the request type whose serialization name is a key of
\* the parameters.
NamedFields ==
    { i \in 1..Len(RequestType.fields) :
        /\ RequestType.fields[i].tag # <<>>
        /\ RequestType.fields[i].tag \in DOMAIN result.Params }

Applied(i) ==
    msg.fields[RequestType.fields[i].Name] =
        Coerce(RequestType.fields[i].kind,
               result.Params[RequestType.fields[i].tag])

\* C9: createMessage with a resolvable type succeeds, every parameter
\* whose key is the serialization name of a field is applied to that
\* field, and with no parameters the zero-valued instance is returned.
C9_ParamsApplied ==
    (pc = "builtParams" /\ Resolvable) =>
        /\ err = ""
        /\ ~msg.isNil
        /\ \A i \in NamedFields : Applied(i)
        /\ ~HasParams(result) => msg = NewMessage(RequestType)

\* Some parameter names a field and carries a value the field's type
\* cannot be coerced from.
Uncoercible ==
    \E i \in NamedFields :
        ~Coercible(RequestType.fields[i].kind,
                   result.Params[RequestType.fields[i].tag])

\* C9 as amended: createMessage with a resolvable type fails exactly when
\* a parameter that names a field carries a value that cannot be coerced to
\* the field's type, so a parameter that names no field never makes it
\* fail; when it succeeds every parameter that names a field is applied to
\* that field and every other field keeps its zero value; with no
\* parameters the zero-valued instance is returned.
C9_Amended ==
    (pc = "builtParams" /\ Resolvable) =>
        /\ (err # "") <=> Uncoercible
        /\ (err # "") <=> msg.isNil
        /\ ~Uncoercible =>
              /\ \A i \in NamedFields : Applied(i)
              /\ \A i \in (1..Len(RequestType.fields)) \ NamedFields :
                    msg.fields[RequestType.fields[i].Name] =
                        ZeroValue(RequestType.fields[i].kind)
        /\ ~HasParams(result) => msg = NewMessage(RequestType)

\* A parameter that names a field is applied while one that names no field
\* is dropped.
C9_Witness ==
    /\ pc = "builtParams"
    /\ result.QueryInputName = "T1"
    /\ DOMAIN result.Params = { <<"x">>, <<"z">> }
    /\ err = ""
    /\ msg.fields[<<"X">>] = result.Params[<<"x">>]
    /\ result.Params[<<"x">>] # <<>>

====
